---------------------------- MODULE Spec2Model ----------------------------
(***************************************************************************)
(* The <color-picker> custom element and its MouseController.              *)
(*                                                                         *)
(* The element (src/color-picker.js, and its later revision                *)
(* src/unnamed/part_004) owns one MouseController (the class of the        *)
(* tutorial, src/unnamed/part_000 lines 267-303).  The controller listens  *)
(* to the window's mousemove / mousedown / mouseup events while the host   *)
(* is connected and asks the host for an update on every one of them; the  *)
(* host's update() turns the pointer position into the CSS custom          *)
(* properties --x, --y, --hue, --saturation, --loupe-border-color and,     *)
(* while the button is down, calls #pick().                                *)
(*                                                                         *)
(* ControllerHostMixin (requestUpdate and the asynchronous pipeline that   *)
(* ends in update()) is imported from a CDN and is not part of the         *)
(* sources: the scheduler below is written from the specification's        *)
(* sections 5 and 9 (a single-slot dirty flag plus a scheduled callback    *)
(* that clears the flag and runs the recomputation).                       *)
(***************************************************************************)
EXTENDS Integers, Sequences, FiniteSets, TLC

(***************************************************************************)
(* Bounds of the model.                                                    *)
(***************************************************************************)
\* Largest width and height of the exhaustively enumerated boxes (SpecMap).
MaxDim == 3
\* The count of move notifications in one scheduling window saturates here.
MaxMoves == 2

(***************************************************************************)
(* JavaScript numbers.  A published value is a record: a finite integer,   *)
(* NaN, +-Infinity, or "unset" for a custom property never written.        *)
(***************************************************************************)
Num(n) == [k |-> "num", v |-> n]
NaN == [k |-> "NaN", v |-> 0]
PosInfinity == [k |-> "Infinity", v |-> 0]
NegInfinity == [k |-> "-Infinity", v |-> 0]
Unset == [k |-> "unset", v |-> 0]

Abs(n) == IF n < 0 THEN -n ELSE n

\* (v * 2^s) mod w, by repeated doubling (every intermediate value < 2w).
RECURSIVE MulPow2Mod(_, _, _)
MulPow2Mod(v, s, w) ==
  IF s = 0 THEN v % w ELSE MulPow2Mod((2 * v) % w, s - 1, w)

RECURSIVE Pow2(_)
Pow2(n) == IF n = 0 THEN 1 ELSE 2 * Pow2(n - 1)

\* floor(log2(n / d)) for integers n, d > 0: the binary exponent of n / d.
RECURSIVE ExpUp(_, _, _)
ExpUp(n, d, a) == IF 2 * d * Pow2(a) <= n THEN ExpUp(n, d, a + 1) ELSE a
RECURSIVE ExpDown(_, _, _)
ExpDown(n, d, j) == IF n * Pow2(j) >= d THEN -j ELSE ExpDown(n, d, j + 1)
Exponent(n, d) == IF n >= d THEN ExpUp(n, d, 0) ELSE ExpDown(n, d, 1)

IsPow2(n) == n = Pow2(Exponent(n, 1))

(***************************************************************************)
(* Math.floor((x / w) * c) in IEEE-754 double precision, for integers x,   *)
(* w >= 0 and c in {100, 360}, all far below 2^31.                         *)
(*                                                                         *)
(* x / w is rounded to 53 bits, the product with c is rounded again, and   *)
(* then floored.  When c*x/w is not an integer it is at least 1/w away     *)
(* from one, far more than the two roundings (relative 2^-52) can move it, *)
(* so the floor is the exact floor.  When K = c*|x|/w is an integer the    *)
(* roundings decide: with a the binary exponent of |x|/w, s = 52 - a and   *)
(* r = (|x| * 2^s) mod w, the quotient is rounded down by r / (w * 2^s)    *)
(* when 2r < w and up by (w - r) / (w * 2^s) when 2r > w (2r = w cannot    *)
(* happen for r > 0).  The product c*q is then off K by e = c*r/(w*2^s)    *)
(* (resp. c*(w-r)/(w*2^s)); it rounds back to K unless e exceeds half the  *)
(* spacing of the doubles next to K (ties go to K, whose significand is    *)
(* even), which is 2^(eK-52) above K and below a K that is no power of     *)
(* two, and 2^(eK-53) below a power of two, eK the binary exponent of K.   *)
(***************************************************************************)
ProductBelow(ax, w, c) ==
  LET K == (c * ax) \div w
      a == Exponent(ax, w)
      r == MulPow2Mod(ax % w, 52 - a, w)
      t == Exponent(K, 1) - a - (IF IsPow2(K) THEN 2 ELSE 1)
  IN  r > 0 /\ 2 * r < w /\ c * r > w * Pow2(t)

ProductAbove(ax, w, c) ==
  LET K == (c * ax) \div w
      a == Exponent(ax, w)
      r == MulPow2Mod(ax % w, 52 - a, w)
      t == Exponent(K, 1) - a - 1
  IN  r > 0 /\ 2 * r > w /\ c * (w - r) > w * Pow2(t)

FloorScaled(x, w, c) ==
  IF w = 0
    THEN (IF x = 0 THEN NaN ELSE IF x < 0 THEN NegInfinity ELSE PosInfinity)
  ELSE IF (c * x) % w # 0 \/ x = 0
    THEN Num((c * x) \div w)
  ELSE LET K == (c * Abs(x)) \div w
       IN  IF x > 0
             THEN Num(IF ProductBelow(x, w, c) THEN K - 1 ELSE K)
             ELSE Num(IF ProductAbove(-x, w, c) THEN -K - 1 ELSE -K)

\* 100 - v, as JavaScript subtracts.
Minus100(v) ==
  IF v.k = "num" THEN Num(100 - v.v)
  ELSE IF v.k = "NaN" THEN NaN
  ELSE IF v.k = "Infinity" THEN NegInfinity
  ELSE PosInfinity

(***************************************************************************)
(* State.  Every per-element variable is a function over the elements      *)
(* that have been constructed (Els).                                       *)
(***************************************************************************)
VARIABLES
  isConnected,    \* Node.isConnected of the host
  box,            \* the host's layout box while it is connected
  loupe,          \* this.loupe: "undefined" (color-picker.js) or "loupe" (part_004)
  mouse,          \* the MouseController's fields: [down, pos]
  style,          \* the custom properties on the host's inline style
  color,          \* this.color
  updatePending,  \* the scheduler's dirty flag
  scheduled,      \* the number of update callbacks scheduled and not yet run
  listeners,      \* the window's event listener lists, by event type
  ptr,            \* where the platform's pointer is
  button,         \* whether the platform's button is held
  win,            \* history: the move notifications of the open scheduling window
  gesture,        \* history: progress of a press / release / click without a move
  hist,           \* history: where the position the tracker holds comes from
  last            \* history: what the last step did

vars == <<isConnected, box, loupe, mouse, style, color, updatePending,
          scheduled, listeners, ptr, button, win, gesture, hist, last>>

Els == DOMAIN isConnected

Point(x, y) == [x |-> x, y |-> y]
Box(w, h) == [left |-> 0, top |-> 0, w |-> w, h |-> h]
Min(a, b) == IF a < b THEN a ELSE b

\* Colours, as this.color holds them.
Undefined == [k |-> "undefined", h |-> 0, s |-> 0]
EmptyString == [k |-> "", h |-> 0, s |-> 0]
Transparent == [k |-> "transparent", h |-> 0, s |-> 0]
Hsl(h, s) == [k |-> "hsl", h |-> h, s |-> s]

NoStyle == [x |-> Unset, y |-> Unset, hue |-> Unset, saturation |-> Unset,
            border |-> "unset"]

(***************************************************************************)
(* The platform's layout: a connected host has its box, a host outside the *)
(* document has no box and all four client* values are 0.  The :host rule  *)
(* gives the element no border, so clientLeft and clientTop are 0.         *)
(***************************************************************************)
clientLeft(e) == IF isConnected[e] THEN box[e].left ELSE 0
clientTop(e) == IF isConnected[e] THEN box[e].top ELSE 0
clientWidth(e) == IF isConnected[e] THEN box[e].w ELSE 0
clientHeight(e) == IF isConnected[e] THEN box[e].h ELSE 0

\* The pointer is over the element (the element sits at the viewport's origin).
Over(e, p) ==
  /\ isConnected[e]
  /\ 0 <= p.x /\ p.x < box[e].w
  /\ 0 <= p.y /\ p.y < box[e].h

(***************************************************************************)
(* #loupe { background: hsl(var(--hue, 0) var(--saturation, 100%) 50%) }   *)
(* read back through getComputedStyle: the empty string outside a          *)
(* document; the initial (transparent) background when a custom property   *)
(* holds something that is no number (NaN, Infinity); otherwise the hsl    *)
(* colour, hue taken modulo one turn and saturation clamped to 0..100%.    *)
(***************************************************************************)
BackgroundColor(e, st) ==
  LET h == IF st.hue.k = "unset" THEN Num(0) ELSE st.hue
      s == IF st.saturation.k = "unset" THEN Num(100) ELSE st.saturation
  IN  IF ~isConnected[e] THEN EmptyString
      ELSE IF h.k # "num" \/ s.k # "num" THEN Transparent
      ELSE Hsl(h.v % 360, IF s.v < 0 THEN 0 ELSE Min(s.v, 100))

(***************************************************************************)
(* ColorPicker.#pick.  In color-picker.js nothing assigns this.loupe, so   *)
(* getComputedStyle(undefined) throws a TypeError before the assignment    *)
(* and before the dispatch; part_004 assigns it in the constructor.  (The  *)
(* alert region part_004 also writes is outside the modelled state.)       *)
(***************************************************************************)
pick(e, st) ==
  IF loupe[e] = "undefined"
    THEN [color |-> color[e], events |-> 0, threw |-> TRUE]
    ELSE [color |-> BackgroundColor(e, st), events |-> 1, threw |-> FALSE]

(***************************************************************************)
(* ColorPicker.update, line by line.                                       *)
(***************************************************************************)
\* Math.ceil((x / w) * c): ceil(v) = -floor(-v), and negation is exact.
CeilScaled(x, w, c) ==
  LET f == FloorScaled(-x, w, c)
  IN  IF f.k = "num" THEN Num(-f.v)
      ELSE IF f.k = "NaN" THEN NaN
      ELSE IF f.k = "Infinity" THEN NegInfinity
      ELSE PosInfinity

\* Variants of the lines of update(), each a slip the claims must notice.
outOfBounds_xOnly(x, y, w, h) == x > w
outOfBounds_yOnly(x, y, w, h) == y > h
hueOf_ceil(x, w) == CeilScaled(x, w, 360)
dragging_never(m) == FALSE
dragging_always(m) == TRUE
borderColor_always(m) == "white"

outOfBounds(x, y, w, h) == x > w \/ y > h
hueOf(x, w) == FloorScaled(x, w, 360)
saturationOf(y, h) == Minus100(FloorScaled(y, h, 100))
borderColor(m) == IF m.down THEN "white" ELSE "black"
dragging(m) == m.down

update(e) ==
  LET x == mouse[e].pos.x - clientLeft(e)
      y == mouse[e].pos.y - clientTop(e)
      w == clientWidth(e)
      h == clientHeight(e)
      read == [lx |-> x, ly |-> y, w |-> w, h |-> h, down |-> mouse[e].down]
  IN  IF outOfBounds(x, y, w, h)
        THEN [style |-> style[e], color |-> color[e], passed |-> FALSE,
              calls |-> 0, events |-> 0, threw |-> FALSE, read |-> read]
        ELSE LET st == [x |-> Num(x), y |-> Num(y), hue |-> hueOf(x, w),
                        saturation |-> saturationOf(y, h),
                        border |-> borderColor(mouse[e])]
                 pk == pick(e, st)
             IN  IF dragging(mouse[e])
                   THEN [style |-> st, color |-> pk.color, passed |-> TRUE,
                         calls |-> 1, events |-> pk.events,
                         threw |-> pk.threw, read |-> read]
                   ELSE [style |-> st, color |-> color[e], passed |-> TRUE,
                         calls |-> 0, events |-> 0, threw |-> FALSE,
                         read |-> read]

(***************************************************************************)
(* MouseController.  A handler's result: the controller's fields after it  *)
(* and the number of host.requestUpdate() calls it made.                   *)
(***************************************************************************)
\* Variant: a move that arrives while an update is pending is dropped.
onMousemove_keepFirst(e, p) ==
  [mouse |-> IF updatePending[e] THEN mouse[e]
             ELSE [mouse[e] EXCEPT !.pos = p],
   requests |-> 1]

\* Variant: a move stores where the pointer was before this event.
onMousemove_previous(e, p) ==
  [mouse |-> [mouse[e] EXCEPT !.pos = ptr], requests |-> 1]

\* Variant: a move asks for an update only when none is pending.
onMousemove_ifIdle(e, p) ==
  [mouse |-> [mouse[e] EXCEPT !.pos = p],
   requests |-> IF updatePending[e] THEN 0 ELSE 1]

\* Variant: a release is recorded without asking for an update.
onMouseup_silent(e) ==
  [mouse |-> [mouse[e] EXCEPT !.down = FALSE], requests |-> 0]

\* Variant: a press also puts the position back to the constructor's.
onMousedown_reset(e) ==
  [mouse |-> [down |-> TRUE, pos |-> Point(0, 0)], requests |-> 1]

onMousemove(e, p) ==
  [mouse |-> [mouse[e] EXCEPT !.pos = p], requests |-> 1]
onMousedown(e) ==
  [mouse |-> [mouse[e] EXCEPT !.down = TRUE], requests |-> 1]
onMouseup(e) ==
  [mouse |-> [mouse[e] EXCEPT !.down = FALSE], requests |-> 1]

(***************************************************************************)
(* The window's listener lists.  A listener is a function object: the      *)
(* controller's arrow-function fields are created once per instance        *)
(* (closure 0).  addEventListener ignores a listener the list already      *)
(* holds; removeEventListener removes the one entry identical to it.       *)
(***************************************************************************)
EventTypes == {"mousemove", "mousedown", "mouseup"}
Handler(e, fn, closure) == [el |-> e, fn |-> fn, closure |-> closure]

AddEventListener(L, type, h) ==
  IF \E i \in DOMAIN L[type] : L[type][i] = h
    THEN L
    ELSE [L EXCEPT ![type] = Append(@, h)]

\* Variant: removal matches the listener by its name, whoever's it is.
RemoveEventListener_byName(L, type, h) ==
  [L EXCEPT ![type] = SelectSeq(@, LAMBDA g : g.fn # h.fn)]

RemoveEventListener(L, type, h) ==
  [L EXCEPT ![type] = SelectSeq(@, LAMBDA g : g # h)]

\* Variant: the listeners are wrapped in a new closure at every call
\* (this.onMousemove.bind(this)), so no later call finds them in the list.
hostConnected_bind(e) ==
  AddEventListener(
    AddEventListener(
      AddEventListener(listeners, "mousemove",
        Handler(e, "onMousemove", Len(listeners["mousemove"]) + 1)),
      "mousedown", Handler(e, "onMousedown", Len(listeners["mousedown"]) + 1)),
    "mouseup", Handler(e, "onMouseup", Len(listeners["mouseup"]) + 1))

\* Variant: the mouseup listener is left behind.
hostDisconnected_forgetUp(e) ==
  RemoveEventListener(
    RemoveEventListener(listeners, "mousemove", Handler(e, "onMousemove", 0)),
    "mousedown", Handler(e, "onMousedown", 0))

hostConnected(e) ==
  AddEventListener(
    AddEventListener(
      AddEventListener(listeners, "mousemove", Handler(e, "onMousemove", 0)),
      "mousedown", Handler(e, "onMousedown", 0)),
    "mouseup", Handler(e, "onMouseup", 0))

hostDisconnected(e) ==
  RemoveEventListener(
    RemoveEventListener(
      RemoveEventListener(listeners, "mousemove", Handler(e, "onMousemove", 0)),
      "mousedown", Handler(e, "onMousedown", 0)),
    "mouseup", Handler(e, "onMouseup", 0))

\* How many entries of the list of `type` belong to e's controller.
Subscriptions(type, e) ==
  Cardinality({i \in DOMAIN listeners[type] : listeners[type][i].el = e})

(***************************************************************************)
(* The scheduler behind host.requestUpdate(): a dirty flag and the         *)
(* callbacks scheduled.  A request while the flag is set schedules         *)
(* nothing.                                                                *)
(***************************************************************************)
\* Variant: every request schedules a callback of its own.
requestUpdate_always(pending, queued) ==
  [pending |-> TRUE, scheduled |-> queued + 1]

requestUpdate(pending, queued) ==
  IF pending
    THEN [pending |-> TRUE, scheduled |-> queued]
    ELSE [pending |-> TRUE, scheduled |-> queued + 1]

(***************************************************************************)
(* History variables.                                                      *)
(***************************************************************************)
NoWindow == [n |-> 0, x |-> 0, y |-> 0]
NoGesture == [phase |-> "none", picks |-> 0]
NoRead == [lx |-> 0, ly |-> 0, w |-> 0, h |-> 0, down |-> FALSE]
\* hist[e].held tells where the position the tracker holds comes from:
\* "initial" (the constructor's {x: 0, y: 0}, which no event reported),
\* "newer" (observed after the position an in-bounds cycle last published),
\* "published" (the observation an in-bounds cycle last published), "stale"
\* (anything else).  hist[e].valid: an in-bounds cycle has published.
NoHistory == [held |-> "initial", valid |-> FALSE]
\* The tracker held `old`, observed p and now holds q.
Held(old, q, p, tag) ==
  IF q = p THEN "newer" ELSE IF q = old THEN tag ELSE "stale"
\* The position an update cycle computed lies strictly inside the box.
Inside(r) == 0 <= r.lx /\ r.lx < r.w /\ 0 <= r.ly /\ r.ly < r.h
Step(op, e) ==
  [op |-> op, el |-> e, req |-> [d \in Els |-> 0], passed |-> FALSE,
   calls |-> 0, events |-> 0, threw |-> FALSE, read |-> NoRead,
   moves |-> NoWindow]

(***************************************************************************)
(* The window dispatches an event of `type` to every listener of its list. *)
(* H[e] is the result of e's handler for this event.  A handler invoked    *)
(* more than once leaves the same fields and the same dirty flag as one    *)
(* invocation; the number of requestUpdate() calls is kept in last.req.    *)
(***************************************************************************)
Dispatch(type, H) ==
  /\ mouse' = [e \in Els |->
       IF Subscriptions(type, e) > 0 THEN H[e].mouse ELSE mouse[e]]
  /\ updatePending' = [e \in Els |->
       IF Subscriptions(type, e) * H[e].requests > 0
         THEN requestUpdate(updatePending[e], scheduled[e]).pending
         ELSE updatePending[e]]
  /\ scheduled' = [e \in Els |->
       IF Subscriptions(type, e) * H[e].requests > 0
         THEN requestUpdate(updatePending[e], scheduled[e]).scheduled
         ELSE scheduled[e]]

Requests(type, H) ==
  [e \in Els |-> Subscriptions(type, e) * H[e].requests]

(***************************************************************************)
(* Actions.                                                                *)
(***************************************************************************)
\* The pointer moves to p: a mousemove event on the window.
MouseMove(p) ==
  /\ ptr' = p
  /\ Dispatch("mousemove", [e \in Els |-> onMousemove(e, p)])
  /\ win' = [e \in Els |->
       IF Subscriptions("mousemove", e) > 0
         THEN [n |-> Min(win[e].n + 1, MaxMoves), x |-> p.x, y |-> p.y]
         ELSE win[e]]
  /\ gesture' = [e \in Els |-> NoGesture]
  /\ hist' = [e \in Els |->
       IF Subscriptions("mousemove", e) > 0
         THEN [hist[e] EXCEPT !.held =
                 Held(mouse[e].pos, onMousemove(e, p).mouse.pos, p, @)]
         ELSE hist[e]]
  /\ last' = [Step("mousemove", 0) EXCEPT
       !.req = Requests("mousemove", [e \in Els |-> onMousemove(e, p)])]
  /\ UNCHANGED <<isConnected, box, loupe, style, color, listeners, button>>

\* The button goes down where the pointer is: a mousedown event.
MouseDown ==
  /\ ~button
  /\ button' = TRUE
  /\ Dispatch("mousedown", [e \in Els |-> onMousedown(e)])
  /\ gesture' = [e \in Els |->
       IF Subscriptions("mousedown", e) > 0 /\ Over(e, ptr)
         THEN [phase |-> "pressed", picks |-> 0]
         ELSE NoGesture]
  /\ last' = [Step("mousedown", 0) EXCEPT
       !.req = Requests("mousedown", [e \in Els |-> onMousedown(e)])]
  /\ UNCHANGED <<isConnected, box, loupe, style, color, listeners, ptr, win,
                 hist>>

\* The button is released: a mouseup event.
MouseUp ==
  /\ button
  /\ button' = FALSE
  /\ Dispatch("mouseup", [e \in Els |-> onMouseup(e)])
  /\ gesture' = [e \in Els |->
       IF /\ gesture[e].phase = "pressed"
          /\ Subscriptions("mouseup", e) > 0
          /\ scheduled[e] = 0
         THEN [gesture[e] EXCEPT !.phase = "released"]
         ELSE NoGesture]
  /\ last' = [Step("mouseup", 0) EXCEPT
       !.req = Requests("mouseup", [e \in Els |-> onMouseup(e)])]
  /\ UNCHANGED <<isConnected, box, loupe, style, color, listeners, ptr, win,
                 hist>>

\* A click event reaches the listener the constructor added.
Click(e) ==
  /\ ~button
  /\ Over(e, ptr)
  /\ LET pk == pick(e, style[e])
     IN  /\ color' = [color EXCEPT ![e] = pk.color]
         /\ gesture' = [d \in Els |->
              IF d = e /\ gesture[e].phase = "released" /\ scheduled[e] = 0
                THEN [phase |-> "done", picks |-> gesture[e].picks + pk.events]
                ELSE NoGesture]
         /\ last' = [Step("click", e) EXCEPT
              !.calls = 1, !.events = pk.events, !.threw = pk.threw]
  /\ UNCHANGED <<isConnected, box, loupe, mouse, style, updatePending,
                 scheduled, listeners, ptr, button, win, hist>>

\* The scheduler's part of an update cycle: a scheduled callback leaves the
\* queue and the flag is cleared.
RunCallback(e) ==
  /\ scheduled[e] > 0
  /\ scheduled' = [scheduled EXCEPT ![e] = @ - 1]
  /\ updatePending' = [updatePending EXCEPT ![e] = FALSE]

\* A scheduled update callback runs: the flag is cleared, update() runs.
UpdateCycle(e) ==
  /\ RunCallback(e)
  /\ LET r == update(e)
     IN  /\ style' = [style EXCEPT ![e] = r.style]
         /\ color' = [color EXCEPT ![e] = r.color]
         /\ gesture' = [gesture EXCEPT ![e] =
              IF @.phase \in {"pressed", "released"}
                THEN [@ EXCEPT !.picks = @ + r.events]
                ELSE @]
         /\ hist' = [hist EXCEPT ![e] =
              IF r.passed /\ Inside(r.read)
                THEN [held |-> IF @.held = "newer" THEN "published" ELSE @.held,
                      valid |-> TRUE]
                ELSE @]
         /\ last' = [Step("update", e) EXCEPT
              !.passed = r.passed, !.calls = r.calls, !.events = r.events,
              !.threw = r.threw, !.read = r.read, !.moves = win[e]]
  /\ win' = [win EXCEPT ![e] = NoWindow]
  /\ UNCHANGED <<isConnected, box, loupe, mouse, listeners, ptr, button>>

\* The host is inserted into the document: connectedCallback.
Connect(e) ==
  /\ ~isConnected[e]
  /\ isConnected' = [isConnected EXCEPT ![e] = TRUE]
  /\ listeners' = hostConnected(e)
  /\ gesture' = [gesture EXCEPT ![e] = NoGesture]
  /\ last' = Step("connect", e)
  /\ UNCHANGED <<box, loupe, mouse, style, color, updatePending, scheduled,
                 ptr, button, win, hist>>

\* The host is removed from the document: disconnectedCallback.
Disconnect(e) ==
  /\ isConnected[e]
  /\ isConnected' = [isConnected EXCEPT ![e] = FALSE]
  /\ listeners' = hostDisconnected(e)
  /\ gesture' = [gesture EXCEPT ![e] = NoGesture]
  /\ last' = Step("disconnect", e)
  /\ UNCHANGED <<box, loupe, mouse, style, color, updatePending, scheduled,
                 ptr, button, win, hist>>

(***************************************************************************)
(* Spec: one element of 400 x 400 (style.css), either revision of the      *)
(* class, constructed and not yet inserted; the pointer visits a few       *)
(* places inside the box, on its far edge, past it, and left of it (a      *)
(* drag that leaves the window reports negative coordinates).              *)
(***************************************************************************)
Points == {Point(0, 0), Point(200, 100), Point(401, 50), Point(50, 401),
           Point(400, 400), Point(-4, 50)}

Constructed(E) ==
  /\ isConnected = [e \in E |-> FALSE]
  /\ loupe \in [E -> {"undefined", "loupe"}]
  /\ mouse = [e \in E |-> [down |-> FALSE, pos |-> Point(0, 0)]]
  /\ style = [e \in E |-> NoStyle]
  /\ color = [e \in E |-> Undefined]
  /\ updatePending = [e \in E |-> FALSE]
  /\ scheduled = [e \in E |-> 0]
  /\ listeners = [t \in EventTypes |-> <<>>]
  /\ button = FALSE
  /\ win = [e \in E |-> NoWindow]
  /\ gesture = [e \in E |-> NoGesture]
  /\ hist = [e \in E |-> NoHistory]
  /\ last = [op |-> "init", el |-> 0, req |-> [d \in E |-> 0],
             passed |-> FALSE, calls |-> 0, events |-> 0, threw |-> FALSE,
             read |-> NoRead, moves |-> NoWindow]

Init ==
  /\ Constructed({1})
  /\ box = [e \in {1} |-> Box(400, 400)]
  /\ ptr \in Points

Next ==
  \/ \E p \in Points : MouseMove(p)
  \/ MouseDown
  \/ MouseUp
  \/ \E e \in Els : Click(e)
  \/ \E e \in Els : UpdateCycle(e)
  \/ \E e \in Els : Connect(e)
  \/ \E e \in Els : Disconnect(e)

Spec == Init /\ [][Next]_vars

(***************************************************************************)
(* SpecMap: the mapping from pointer position to hue and saturation.  One  *)
(* connected element; Init draws the inputs of update() that the moves do  *)
(* not: the box (every width and height up to MaxDim, and the 400 x 400    *)
(* box of style.css) and the button state.  The pointer then visits every  *)
(* position from the box's corner to one pixel past it (for the 400 x 400  *)
(* box: the coordinates MapXs x MapYs, which reach from before the box to  *)
(* past it).                                                               *)
(***************************************************************************)
MapXs == {-4, 0, 70, 200, 399, 400, 401}
MapYs == {-4, 0, 100, 116, 399, 400, 401}
MapPointsOf(b) ==
  IF b.w <= MaxDim /\ b.h <= MaxDim
    THEN {Point(x, y) : x \in 0 .. (b.w + 1), y \in 0 .. (b.h + 1)}
    ELSE {Point(x, y) : x \in MapXs, y \in MapYs}
MapBoxes == {Box(w, h) : w \in 1 .. MaxDim, h \in 1 .. MaxDim} \cup {Box(400, 400)}
MapPoints == UNION {MapPointsOf(box[e]) : e \in Els}

InitMap ==
  /\ isConnected = [e \in {1} |-> TRUE]
  /\ box \in [{1} -> MapBoxes]
  /\ loupe \in [{1} -> {"undefined", "loupe"}]
  /\ button \in BOOLEAN
  /\ mouse = [e \in {1} |-> [down |-> button, pos |-> Point(0, 0)]]
  /\ style = [e \in {1} |-> NoStyle]
  /\ color = [e \in {1} |-> Undefined]
  /\ updatePending = [e \in {1} |-> FALSE]
  /\ scheduled = [e \in {1} |-> 0]
  /\ listeners = [t \in EventTypes |->
       <<Handler(1, CASE t = "mousemove" -> "onMousemove"
                      [] t = "mousedown" -> "onMousedown"
                      [] OTHER -> "onMouseup", 0)>>]
  /\ ptr = Point(0, 0)
  /\ win = [e \in {1} |-> NoWindow]
  /\ gesture = [e \in {1} |-> NoGesture]
  /\ hist = [e \in {1} |-> NoHistory]
  /\ last = [op |-> "init", el |-> 0, req |-> [d \in {1} |-> 0],
             passed |-> FALSE, calls |-> 0, events |-> 0, threw |-> FALSE,
             read |-> NoRead, moves |-> NoWindow]

NextMap ==
  \/ \E p \in MapPoints : MouseMove(p)
  \/ \E e \in Els : UpdateCycle(e)

SpecMap == InitMap /\ [][NextMap]_vars

(***************************************************************************)
(* Properties.                                                             *)
(***************************************************************************)
IsEvent(op) == op \in {"mousemove", "mousedown", "mouseup"}
\* The last step was an update cycle of e.
Updated(e) == last.op = "update" /\ last.el = e
\* The position the last update cycle computed fails the bounds check.
Beyond(r) == r.lx > r.w \/ r.ly > r.h

\* C1: a press, a release and the click that follows, with no move and with
\* the scheduled update cycles run in between, emit exactly one pick event.
C1_OneSelectionPerClick ==
  \A e \in Els : gesture[e].phase = "done" => gesture[e].picks = 1

\* C2: however many moves reach a mounted tracker before the scheduled update
\* runs, exactly one run is scheduled for them, it computes from the position
\* of the last of them, and no second run stays queued after it.
C2_Coalescing ==
  \A e \in Els :
    /\ win[e].n >= 1 => scheduled[e] = 1
    /\ Updated(e) =>
         /\ scheduled[e] = 0
         /\ ~updatePending[e]
         /\ last.moves.n >= 1 =>
              /\ last.read.lx = last.moves.x - clientLeft(e)
              /\ last.read.ly = last.moves.y - clientTop(e)
              /\ last.passed =>
                   /\ style[e].x = Num(last.moves.x - clientLeft(e))
                   /\ style[e].y = Num(last.moves.y - clientTop(e))

\* Two or more moves were coalesced into the cycle that just ran in bounds.
C2_Witness ==
  /\ Updated(1) /\ isConnected[1]
  /\ last.moves.n >= 2 /\ last.passed
  /\ style[1].x = Num(last.moves.x)

C4_NoPickAfterRelease ==
  \A e \in Els :
    /\ last.op = "mouseup" /\ last.req[e] >= 1 => ~mouse[e].down
    /\ Updated(e) /\ ~last.read.down => last.calls = 0 /\ last.events = 0

\* After a press and a release, a cycle ran in bounds with the button up.
C4_Witness ==
  /\ Updated(1) /\ ~last.read.down /\ last.passed
  /\ gesture[1].phase = "released"

\* C5: an update cycle whose local position has x > width or y > height
\* leaves every published property as it was.
C5_OutOfBoundsFrame ==
  [][\A e \in Els :
       (last'.op = "update" /\ last'.el = e /\ Beyond(last'.read))
         => style'[e] = style[e]]_vars

\* A cycle ran with y > height after properties had been published.
C5_Witness ==
  /\ Updated(1) /\ last.read.ly > last.read.h
  /\ style[1] # NoStyle /\ isConnected[1]

\* C6: for a position strictly inside the box the update publishes a hue in
\* [0, 360) and a saturation in [0, 100], and both are the same function of
\* (x, y, width, height) whatever the button state and the previous values.
C6_RangeAndDeterminism ==
  \A e \in Els :
    Updated(e) /\ Inside(last.read) =>
      /\ style[e].hue.k = "num"
      /\ 0 <= style[e].hue.v /\ style[e].hue.v < 360
      /\ style[e].saturation.k = "num"
      /\ 0 <= style[e].saturation.v /\ style[e].saturation.v <= 100
      /\ style[e].hue = FloorScaled(last.read.lx, last.read.w, 360)
      /\ style[e].saturation =
           Minus100(FloorScaled(last.read.ly, last.read.h, 100))

\* A cycle ran strictly inside the box with the button held.
C6_Witness ==
  /\ Updated(1) /\ Inside(last.read) /\ last.read.down
  /\ style[1].hue.v > 0 /\ style[1].saturation.v < 100

\* C7: the published values are floor(x * 360 / width) and
\* 100 - floor(y * 100 / height) at every integer position inside the box.
C7_ReferenceMapping ==
  \A e \in Els :
    Updated(e) /\ Inside(last.read) =>
      /\ style[e].hue = Num((last.read.lx * 360) \div last.read.w)
      /\ style[e].saturation =
           Num(100 - ((last.read.ly * 100) \div last.read.h))

\* C8: whatever mounts and unmounts have happened, the tracker has at most
\* one subscription per event type, and an event makes at most one update
\* request per tracker.
C8_SingleSubscription ==
  \A e \in Els :
    /\ \A t \in EventTypes : Subscriptions(t, e) <= 1
    /\ IsEvent(last.op) => last.req[e] <= 1

\* The element was mounted again after an earlier mount had published.
C8_Witness ==
  /\ last.op = "connect" /\ last.el = 1
  /\ style[1] # NoStyle
  /\ \A t \in EventTypes : Subscriptions(t, 1) = 1

\* C9: the three listeners are subscribed exactly while the owner is
\* mounted, and an event delivered while it is unmounted changes neither
\* position nor buttonDown and requests no update.
C9_SubscribedWhileMounted ==
  /\ [](\A e \in Els : \A t \in EventTypes :
          Subscriptions(t, e) = (IF isConnected[e] THEN 1 ELSE 0))
  /\ [][\A e \in Els :
          (~isConnected[e] /\ IsEvent(last'.op)) =>
            /\ mouse'[e] = mouse[e]
            /\ last'.req[e] = 0
            /\ scheduled'[e] = scheduled[e]
            /\ updatePending'[e] = updatePending[e]]_vars

\* An event arrived while the element, once mounted, is unmounted.
C9_Witness ==
  /\ ~isConnected[1] /\ IsEvent(last.op)
  /\ scheduled[1] = 1 /\ ptr # mouse[1].pos

\* C10: an update cycle that runs after the element was unmounted changes no
\* published property and not the colour, emits no pick event and raises no
\* error.
C10_DetachedCycleNoOp ==
  [][\A e \in Els :
       (last'.op = "update" /\ last'.el = e /\ ~isConnected[e]) =>
         /\ style'[e] = style[e]
         /\ color'[e] = color[e]
         /\ last'.events = 0
         /\ ~last'.threw]_vars

\* A step in which #pick() was called: by the click listener, or by update().
Picked(e) == last.op \in {"click", "update"} /\ last.el = e /\ last.calls = 1

\* C11: pick() never throws: every call, from the click listener or from a
\* dragging update cycle, completes by storing the colour and dispatching the
\* pick event.
C11_PickNeverThrows ==
  \A e \in Els : Picked(e) => ~last.threw

\* C12: each call of pick() stores the colour the loupe is rendering from the
\* published hue and saturation and then emits exactly one pick event, so
\* whenever a pick event is observed this.color is that rendered colour.
C12_ColourThenEvent ==
  \A e \in Els :
    Picked(e) =>
      /\ last.events = 1
      /\ color[e] = BackgroundColor(e, style[e])

\* What update() would compute for e now: the tracker's position in local
\* coordinates and the box.
Local(e) ==
  [lx |-> mouse[e].pos.x - clientLeft(e), ly |-> mouse[e].pos.y - clientTop(e),
   w |-> clientWidth(e), h |-> clientHeight(e), down |-> mouse[e].down]
\* The properties e has published come from a position strictly inside its box.
PublishedInside(e) ==
  /\ style[e].x.k = "num" /\ 0 <= style[e].x.v /\ style[e].x.v < box[e].w
  /\ style[e].y.k = "num" /\ 0 <= style[e].y.v /\ style[e].y.v < box[e].h
  /\ style[e].hue.k = "num" /\ style[e].saturation.k = "num"

\* C13: a pick() that runs to completion while the tracker's local position is
\* outside [0, width) x [0, height), after an in-bounds cycle has published,
\* stores the colour rendered from the hue and saturation that the most recent
\* in-bounds cycle published: the published properties are still those of an
\* in-bounds position, not of the out-of-bounds one.
C13_OutOfBoundsPickKeepsValid ==
  \A e \in Els :
    (Picked(e) /\ ~last.threw /\ hist[e].valid /\ ~Inside(Local(e))) =>
      /\ color[e] = BackgroundColor(e, style[e])
      /\ PublishedInside(e)

\* C14: whenever the element is inserted (first mount or remount) it is
\* Mounted-Idle: its three listeners are subscribed and buttonDown is false,
\* whatever presses, releases and unmounts came before.  (Stated for the
\* insertions made while no button is held, where Idle is also what the
\* platform reports.)
C14_MountedIdleOnInsert ==
  \A e \in Els :
    (last.op = "connect" /\ last.el = e /\ ~button) =>
      /\ \A t \in EventTypes : Subscriptions(t, e) = 1
      /\ ~mouse[e].down

\* C15: every move, press or release delivered to a subscribed tracker leaves
\* the tracker's state updated (pos is the event's position; down is true
\* after a press and false after a release) and makes exactly one
\* requestUpdate() call on the owner, also when an update is already pending.
C15_OneRequestPerEvent ==
  \A e \in Els :
    (IsEvent(last.op) /\ Subscriptions(last.op, e) >= 1) =>
      /\ last.req[e] = 1
      /\ last.op = "mousemove" => mouse[e].pos = ptr
      /\ last.op = "mousedown" => mouse[e].down
      /\ last.op = "mouseup" => ~mouse[e].down

\* A second move was handled while the update its predecessor requested was
\* still pending, and it made its own request.
C15_Witness ==
  /\ last.op = "mousemove" /\ last.req[1] = 1
  /\ win[1].n >= 2 /\ updatePending[1]
  /\ mouse[1].pos = ptr /\ ptr # Point(0, 0)

\* C16: in every reachable state, wherever the pointer has moved (local x equal
\* to width, local y equal to height and negative local coordinates included),
\* a published hue is an integer in [0, 360) and a published saturation an
\* integer in [0, 100].
C16_PublishedRange ==
  \A e \in Els :
    /\ style[e].hue # Unset =>
         /\ style[e].hue.k = "num"
         /\ 0 <= style[e].hue.v /\ style[e].hue.v < 360
    /\ style[e].saturation # Unset =>
         /\ style[e].saturation.k = "num"
         /\ 0 <= style[e].saturation.v /\ style[e].saturation.v <= 100

(***************************************************************************)
(* SpecPair: two elements (part_004 revision), each with its own           *)
(* MouseController, on the one window; each is inserted and removed        *)
(* independently of the other.  The specification follows the trackers:    *)
(* the update callbacks they request stay scheduled.                       *)
(***************************************************************************)
PairPoints == {Point(200, 100), Point(401, 50)}

InitPair ==
  /\ Constructed({1, 2})
  /\ loupe = [e \in {1, 2} |-> "loupe"]
  /\ box = [e \in {1, 2} |-> Box(400, 400)]
  /\ ptr = Point(0, 0)

NextPair ==
  \/ \E p \in PairPoints : MouseMove(p)
  \/ MouseDown
  \/ MouseUp
  \/ \E e \in Els : Connect(e)
  \/ \E e \in Els : Disconnect(e)

SpecPair == InitPair /\ [][NextPair]_vars

\* C17: with two pickers on the same window, an event changes the position,
\* buttonDown and update request of exactly the mounted trackers, each from
\* its own handler (a tracker that is not mounted is untouched whatever the
\* other one does), and mounting or unmounting one element leaves the other
\* element's subscriptions and tracker as they were.
C17_TrackersIndependent ==
  [][\A e \in Els :
       /\ IsEvent(last'.op) =>
            IF isConnected[e]
              THEN /\ last'.req[e] = 1
                   /\ mouse'[e] =
                        [down |-> CASE last'.op = "mousedown" -> TRUE
                                    [] last'.op = "mouseup" -> FALSE
                                    [] OTHER -> mouse[e].down,
                         pos |-> IF last'.op = "mousemove" THEN ptr'
                                 ELSE mouse[e].pos]
              ELSE /\ last'.req[e] = 0
                   /\ mouse'[e] = mouse[e]
                   /\ scheduled'[e] = scheduled[e]
                   /\ updatePending'[e] = updatePending[e]
       /\ (last'.op \in {"connect", "disconnect"} /\ last'.el # e) =>
            /\ \A t \in EventTypes :
                 /\ Subscriptions(t, e)' = Subscriptions(t, e)
                 /\ Subscriptions(t, e) = (IF isConnected[e] THEN 1 ELSE 0)
            /\ mouse'[e] = mouse[e]
            /\ scheduled'[e] = scheduled[e]]_vars

\* An event reached the mounted picker 1 only, after picker 2 had been
\* mounted, had seen a move and had been removed; the two trackers differ.
C17_Witness ==
  /\ IsEvent(last.op) /\ last.req[1] = 1 /\ last.req[2] = 0
  /\ isConnected[1] /\ ~isConnected[2]
  /\ mouse[2].pos # Point(0, 0) /\ mouse[1] # mouse[2]
  /\ \A t \in EventTypes : Subscriptions(t, 1) = 1 /\ Subscriptions(t, 2) = 0

\* C18, as claimed: the positions published by in-bounds update cycles are a
\* subsequence of the positions the tracker observed: each such cycle
\* publishes an observation made after the one the previous cycle published.
C18_Original ==
  [][\A e \in Els :
       (last'.op = "update" /\ last'.el = e /\ last'.passed
          /\ Inside(last'.read)) =>
         hist[e].held = "newer"]_vars

\* C18, amended: an in-bounds update cycle publishes the position the tracker
\* holds, which is the latest observation, or (no move since) the observation
\* the previous in-bounds cycle published, or (no move yet) the constructor's
\* (0, 0); it is never a position observed before the one an earlier cycle
\* published.
C18_Amended ==
  [][\A e \in Els :
       (last'.op = "update" /\ last'.el = e /\ last'.passed
          /\ Inside(last'.read)) =>
         /\ hist[e].held \in {"newer", "published", "initial"}
         /\ hist[e].held = "initial" => mouse[e].pos = Point(0, 0)
         /\ last'.moves.n >= 1 =>
              /\ hist[e].held = "newer"
              /\ mouse[e].pos = Point(last'.moves.x, last'.moves.y)
         /\ style'[e].x = Num(mouse[e].pos.x - clientLeft(e))
         /\ style'[e].y = Num(mouse[e].pos.y - clientTop(e))]_vars

\* An in-bounds cycle published a newly observed position after an earlier
\* cycle had published, and picked at, another one.
C18_Witness ==
  /\ Updated(1) /\ last.passed /\ Inside(last.read) /\ last.moves.n >= 1
  /\ hist[1].held = "published" /\ hist[1].valid
  /\ color[1].k = "hsl" /\ color[1] # BackgroundColor(1, style[1])

\* C19: every update cycle that passes the bounds check publishes x, y, hue,
\* saturation and the border colour, and the border is white exactly when
\* buttonDown is true when the cycle runs, black otherwise.
C19_PublishesAllFive ==
  \A e \in Els :
    (Updated(e) /\ last.passed) =>
      /\ style[e].x = Num(last.read.lx)
      /\ style[e].y = Num(last.read.ly)
      /\ style[e].hue = FloorScaled(last.read.lx, last.read.w, 360)
      /\ style[e].saturation =
           Minus100(FloorScaled(last.read.ly, last.read.h, 100))
      /\ style[e].border \in {"white", "black"}
      /\ style[e].border = "white" <=> last.read.down
      /\ style[e].border = "white" <=> mouse[e].down

\* A cycle ran after the release and turned the published border from white
\* back to black: the colour picked while the button was held is still there.
C19_Witness ==
  /\ Updated(1) /\ last.passed /\ ~last.read.down
  /\ style[1].border = "black" /\ style[1].hue = Num(180)
  /\ color[1].k = "hsl" /\ ~button

\* C20: at most one update cycle is pending per element: however many
\* requestUpdate() calls the tracker has made since the last cycle ran, the
\* number of update callbacks scheduled and not yet run is 0 or 1 (1 exactly
\* while the dirty flag is set).
C20_AtMostOnePending ==
  \A e \in Els :
    /\ scheduled[e] \in {0, 1}
    /\ scheduled[e] = 1 <=> updatePending[e]

\* A press, a move and a release all asked for an update since the last cycle
\* ran; one callback is scheduled.
C20_Witness ==
  /\ last.op = "mouseup" /\ last.req[1] = 1
  /\ gesture[1].phase = "none" /\ win[1].n >= 1
  /\ style[1] # NoStyle /\ scheduled[1] = 1

\* The colour hsl(hue saturation% 50%) of the published hue and saturation.
ColourOf(st) ==
  Hsl(st.hue.v % 360,
      IF st.saturation.v < 0 THEN 0 ELSE Min(st.saturation.v, 100))

\* C21: a dragging update cycle that passes the bounds check publishes x, y,
\* hue, saturation and the border before pick() runs, so the colour its pick
\* event reports is the colour of the hue and saturation computed in that
\* same cycle.
C21_PickSeesThisCycle ==
  \A e \in Els :
    (Updated(e) /\ last.passed /\ last.read.down) =>
      /\ last.calls = 1
      /\ style[e].x = Num(last.read.lx)
      /\ style[e].y = Num(last.read.ly)
      /\ style[e].hue = FloorScaled(last.read.lx, last.read.w, 360)
      /\ style[e].saturation =
           Minus100(FloorScaled(last.read.ly, last.read.h, 100))
      /\ style[e].border = "white"
      /\ last.events = 1 =>
           /\ style[e].hue.k = "num" /\ style[e].saturation.k = "num"
           /\ color[e] = ColourOf(style[e])

\* C22: an update cycle that fails the bounds check (x > width or y > height)
\* calls no pick(), emits no pick event and leaves this.color as it was, also
\* when buttonDown is true at that time.
C22_OutOfBoundsNoPick ==
  [][\A e \in Els :
       (last'.op = "update" /\ last'.el = e /\ Beyond(last'.read)) =>
         /\ last'.calls = 0
         /\ last'.events = 0
         /\ ~last'.threw
         /\ color'[e] = color[e]]_vars

\* A cycle failed the bounds check with the button held, after an earlier
\* cycle of the same drag had picked a colour.
C22_Witness ==
  /\ Updated(1) /\ Beyond(last.read) /\ last.read.down /\ isConnected[1]
  /\ color[1].k = "hsl" /\ style[1].border = "white" /\ button

\* C23: in every state in which the element is mounted and no update cycle is
\* pending, the published border is the emphasised one (white) only if
\* buttonDown is true: a release is reflected in the border wherever the
\* pointer is when it happens.
C23_BorderFollowsButton ==
  \A e \in Els :
    (isConnected[e] /\ scheduled[e] = 0 /\ ~updatePending[e]) =>
      (style[e].border = "white" => mouse[e].down)

\* C24: the handlers have disjoint effects: a move replaces pos and leaves
\* down as it was, a press or a release sets down and leaves pos as it was,
\* and no handler writes a published property or this.color.
C24_HandlersDisjoint ==
  [][\A e \in Els :
       IsEvent(last'.op) =>
         /\ last'.op = "mousemove" =>
              /\ mouse'[e].down = mouse[e].down
              /\ Subscriptions("mousemove", e) = 1 => mouse'[e].pos = ptr'
         /\ last'.op = "mousedown" =>
              /\ mouse'[e].pos = mouse[e].pos
              /\ Subscriptions("mousedown", e) = 1 => mouse'[e].down
         /\ last'.op = "mouseup" =>
              /\ mouse'[e].pos = mouse[e].pos
              /\ Subscriptions("mouseup", e) = 1 => ~mouse'[e].down
         /\ style'[e] = style[e]
         /\ color'[e] = color[e]
         /\ last'.calls = 0 /\ last'.events = 0]_vars

\* A press reached the tracker after a move to another place had been
\* published and a colour had been picked: the press left them alone.
C24_Witness ==
  /\ last.op = "mousedown" /\ last.req[1] = 1 /\ mouse[1].down
  /\ mouse[1].pos = Point(200, 100) /\ style[1].x = Num(200)
  /\ style[1].border = "black" /\ color[1].k = "hsl"

(***************************************************************************)
(* SpecLive: one element, as in Spec, with fewer places for the pointer,   *)
(* and a scheduler that is weakly fair: a scheduled update callback is     *)
(* eventually run (the platform drains its queue of callbacks).  The       *)
(* fairness condition is put on the scheduler's part of UpdateCycle: the   *)
(* two are enabled in the same states (a callback is scheduled), and the   *)
(* only steps of NextLive that take a callback off the queue are those of  *)
(* UpdateCycle.                                                            *)
(***************************************************************************)
LivePoints == {Point(200, 100), Point(401, 50)}

InitLive ==
  /\ Constructed({1})
  /\ box = [e \in {1} |-> Box(400, 400)]
  /\ ptr = Point(0, 0)

NextLive ==
  \/ \E p \in LivePoints : MouseMove(p)
  \/ MouseDown
  \/ MouseUp
  \/ \E e \in Els : Click(e)
  \/ \E e \in Els : UpdateCycle(e)
  \/ \E e \in Els : Connect(e)
  \/ \E e \in Els : Disconnect(e)

SpecLive ==
  /\ InitLive
  /\ [][NextLive]_vars
  /\ WF_<<scheduled, updatePending>>(RunCallback(1))

\* The last step was an event that the mounted tracker of e handled.
Handled(e) == IsEvent(last.op) /\ isConnected[e]
\* The last step was an update cycle of e that read the tracker as it is now.
ReadCurrent(e) ==
  /\ Updated(e)
  /\ last.read.down = mouse[e].down
  /\ last.read.lx = mouse[e].pos.x - clientLeft(e)
  /\ last.read.ly = mouse[e].pos.y - clientTop(e)

\* C25: with a weakly fair scheduler, every move, press or release that a
\* mounted element's tracker handles is eventually followed by a run of
\* update() that reads a tracker state at least as recent as that event.
C25_EventLeadsToUpdate ==
  Handled(1) ~> ReadCurrent(1)

\* The cycle a move had requested ran, read the position of that move and
\* stopped at the bounds check: the routine ran although nothing was shown.
C25_Witness ==
  /\ ReadCurrent(1) /\ isConnected[1] /\ last.moves.n >= 1
  /\ ~last.passed /\ scheduled[1] = 0 /\ ~updatePending[1]
=============================================================================
